---- MODULE Spec2Model ----
(***************************************************************************)
(* Model of processamento/extracao.py: the extraction-with-cache layer.    *)
(*                                                                         *)
(* obter_dados_brutos() is modelled statement by statement.  Every caller  *)
(* owns a call stack (pilha) of frames; the recursive re-invocation of     *)
(* line 61 pushes a frame, a return pops one, an uncaught exception        *)
(* unwinds the whole stack.  The cache file (arquivo) and the upstream     *)
(* sources are shared; what a source returns is an input of each fetch.    *)
(* hist is the history of the events of the current top-level call of     *)
(* each caller (log records, fetches, opened connections, reads, writes,   *)
(* deletions), inicio the cache file as that call found it and anterior    *)
(* the outcome of the caller's previous call; the three are history        *)
(* variables, kept where traco is set (the sequential specification) and   *)
(* left empty in the interleaved one.                                      *)
(*                                                                         *)
(* get_conexao() of database.py, the connection factory, is modelled       *)
(* statement by statement as well; fabrica is the state of one call of it  *)
(* (its descriptor, position, log records, objects created and outcome),   *)
(* exercised on its own in SpecConexao.                                    *)
(***************************************************************************)
EXTENDS Integers, Sequences, FiniteSets, TLC

VARIABLES arquivo, chamadas, estado, pilha, retorno, erro, traco, hist, inicio,
          anterior, fabrica

\* the state of processamento/extracao.py
varsExtracao == <<arquivo, chamadas, estado, pilha, retorno, erro, traco, hist,
                  inicio, anterior>>

vars == <<arquivo, chamadas, estado, pilha, retorno, erro, traco, hist, inicio,
          anterior, fabrica>>

(* ---------------------------- bounds ---------------------------------- *)

\* longest dataset (number of rows) an upstream source or a table holds
MaxRows == 1

\* invocations the caller of the sequential specification makes
MaxCalls == 2

\* deepest call stack explored (the code itself has no such limit)
MaxDepth == 3

(* ---------------------------- data ------------------------------------ *)

TABELA_ORCADO_CACHE == "orcado_nacional_raw"

TABELA_CC_CACHE == "cc_estrutura_raw"

Tabelas == {TABELA_ORCADO_CACHE, TABELA_CC_CACHE}

\* the callers that may invoke obter_dados_brutos
Chamadores == {"A", "B"}

\* the scalar content of one row
Valores == {"x"}

\* the row sequences of at most MaxRows rows
Linhas == UNION {[1..n -> Valores] : n \in 0..MaxRows}

\* the default index pandas gives a frame of n rows: 0, 1, ..., n-1
RangeIndex(n) == [i \in 1..n |-> i - 1]

\* pd.read_sql: the full result set, materialized, under a fresh RangeIndex
read_sql(linhas) == [index |-> RangeIndex(Len(linhas)), rows |-> linhas]

\* a to_sql that loses the last row of the frame
to_sql_sem_ultima(df) == SubSeq(df.rows, 1, Len(df.rows) - 1)

\* DataFrame.to_sql(..., index=False): the rows are stored, the index is not
to_sql(df) == df.rows

\* a table of the cache file: held with its rows, absent, or unreadable
TabelaOk(linhas) == [st |-> "ok", rows |-> linhas]

TabelaAusente == [st |-> "missing", rows |-> <<>>]

TabelaInvalida == [st |-> "invalid", rows |-> <<>>]

EstadosTabela == {TabelaOk(l) : l \in Linhas} \cup {TabelaAusente, TabelaInvalida}

\* the cache file: not on disk, or on disk with the state of its two tables
SemArquivo == [existe |-> FALSE, tabelas |-> [t \in Tabelas |-> TabelaAusente]]

Arquivos == {SemArquivo} \cup
            {[existe |-> TRUE, tabelas |-> ts] : ts \in [Tabelas -> EstadosTabela]}

\* the initial cache files of the interleaved specification: absent, empty,
\* unreadable, holding one table only, holding both
ArquivosConc ==
    {SemArquivo,
     [existe |-> TRUE, tabelas |-> [t \in Tabelas |-> TabelaAusente]],
     [existe |-> TRUE, tabelas |-> [t \in Tabelas |-> TabelaInvalida]],
     [existe |-> TRUE, tabelas |-> [t \in Tabelas |->
          IF t = TABELA_ORCADO_CACHE THEN TabelaOk(<<>>) ELSE TabelaAusente]],
     [existe |-> TRUE, tabelas |-> [t \in Tabelas |-> TabelaOk(<<>>)]]}

\* an SQLite file just created by a first connection: no table yet
ArquivoVazio == [existe |-> TRUE, tabelas |-> [t \in Tabelas |-> TabelaAusente]]

\* Path.exists()
exists(arq) == arq.existe

\* both tables can be read
CacheValido(arq) ==
    /\ arq.existe
    /\ \A t \in Tabelas : arq.tabelas[t].st = "ok"

(* ---------------------------- events ---------------------------------- *)

Ev(e, a) == [ev |-> e, arg |-> a]

RECURSIVE Conta(_, _)
\* how many events of the history h are of kind e
Conta(h, e) ==
    IF h = <<>> THEN 0
    ELSE (IF Head(h).ev = e THEN 1 ELSE 0) + Conta(Tail(h), e)

RECURSIVE ContaEv(_, _)
\* how many events of the history h are equal to ev
ContaEv(h, ev) ==
    IF h = <<>> THEN 0
    ELSE (IF Head(h) = ev THEN 1 ELSE 0) + ContaEv(Tail(h), ev)

(* ---------------------------- frames ---------------------------------- *)

\* a frame of obter_dados_brutos: its position and its locals (an unbound
\* local is the empty sequence, a bound one a sequence of one value)
NovoFrame == [pc |-> "exists", df_orcado |-> <<>>, df_cc |-> <<>>,
              org_orcado |-> "none", org_cc |-> "none", valor |-> <<>>]

Topo(p) == pilha[p][Len(pilha[p])]

Em(p, pc) ==
    /\ estado[p] = "running"
    /\ pilha[p] # <<>>
    /\ Topo(p).pc = pc

ComTopo(p, f) == [pilha EXCEPT ![p] = [@ EXCEPT ![Len(@)] = f]]

\* the events evs are appended to the history of p, where histories are kept
Registrar(p, evs) == hist' = IF traco THEN [hist EXCEPT ![p] = @ \o evs] ELSE hist

(* ---------------------------- control flow ---------------------------- *)

\* variants of the definitions below, each changed the way a slip in the
\* code would change it

\* the try block without the read of orcado_nacional_raw
Captura_sem_orcado(pc) == pc \in {"conn_r", "read_cc"}

\* the try block around the whole body of the function
Captura_tudo(pc) == TRUE

\* the try block extended over the two fetches
Captura_com_busca(pc) ==
    pc \in {"conn_r", "read_orcado", "read_cc", "fetch_orcado", "fetch_cc"}

\* the try block extended over the cache writes
Captura_com_escrita(pc) ==
    pc \in {"conn_r", "read_orcado", "read_cc", "conn_w", "write_orcado", "write_cc"}

\* line 27 without its condition: the live fetch on every call
RamoCacheAusente_sempre(arq) == TRUE

\* line 27 with its condition inverted
RamoCacheAusente_invertido(arq) == arq.existe

\* line 27: the miss path is taken when the cache file is not on disk
RamoCacheAusente(arq) == ~exists(arq)

\* lines 45-53: the statements inside the try block, whose exceptions the
\* handler of line 54 catches
Captura(pc) == pc \in {"conn_r", "read_orcado", "read_cc"}

\* an exception of kind tipo raised by the statement at the top frame of p:
\* caught by the handler of line 54 when the statement is inside the try,
\* propagated through every frame to the caller of the top-level call
\* otherwise (the outer frames wait at line 61, inside their own handler,
\* where nothing catches)
Falhar(p, tipo) ==
    /\ erro' = [erro EXCEPT ![p] = tipo]
    /\ IF Captura(Topo(p).pc)
       THEN /\ pilha' = ComTopo(p, [Topo(p) EXCEPT !.pc = "except"])
            /\ UNCHANGED estado
       ELSE /\ pilha' = [pilha EXCEPT ![p] = <<>>]
            /\ estado' = [estado EXCEPT ![p] = "raised"]

\* line 61 keeping the Orcado frame already read from the cache and taking
\* only the EstruturaCC frame from the recursive call
ValorRetorno_misto(f) ==
    IF f.pc = "return61"
    THEN IF f.df_orcado # <<>>
         THEN [orcado |-> f.df_orcado[1], cc |-> f.valor[1].cc,
               origem |-> <<f.org_orcado, f.valor[1].origem[2]>>]
         ELSE f.valor[1]
    ELSE [orcado |-> f.df_orcado[1], cc |-> f.df_cc[1],
          origem |-> <<f.org_orcado, f.org_cc>>]

\* line 63: the tuple (df_orcado, df_cc) of the frame's locals, with the
\* origin of each dataset
Par(f) == [orcado |-> f.df_orcado[1], cc |-> f.df_cc[1],
           origem |-> <<f.org_orcado, f.org_cc>>]

\* the value a frame returns: at line 61 the value of the recursive call,
\* at line 63 the tuple of its locals
ValorRetorno(f) == IF f.pc = "return61" THEN f.valor[1] ELSE Par(f)

\* both to_sql calls given df_orcado
salvar_arg_mesmo(tabela, df_orcado, df_cc) == df_orcado

\* lines 94-97: the frame written under each table name
salvar_arg(tabela, df_orcado, df_cc) ==
    IF tabela = TABELA_ORCADO_CACHE THEN df_orcado ELSE df_cc

\* to_sql(..., if_exists="append"): the rows are added to those the table has
Gravar_acrescenta(arq, tabela, linhas) ==
    [existe |-> TRUE,
     tabelas |-> [arq.tabelas EXCEPT ![tabela] = TabelaOk(@.rows \o linhas)]]

\* to_sql(..., if_exists="replace"): the table's content is replaced in
\* full; the file is created by the first write
Gravar(arq, tabela, linhas) ==
    [existe |-> TRUE,
     tabelas |-> [arq.tabelas EXCEPT ![tabela] = TabelaOk(linhas)]]

\* what a failed to_sql may leave behind: nothing changed (the failure came
\* before the file was touched), or the file created and the table dropped
\* and not rewritten
RestosDeGravacao(arq, tabela) ==
    {arq, [existe |-> TRUE,
           tabelas |-> [arq.tabelas EXCEPT ![tabela] = TabelaAusente]]}

\* both reads given the name of the Orcado table
carregar_dados_do_cache_trocado(arq, tabela) == arq.tabelas[TABELA_ORCADO_CACHE]

\* a read that yields an empty frame for a table the file does not hold
carregar_dados_do_cache_vazio(arq, tabela) ==
    IF arq.tabelas[tabela].st = "missing" THEN TabelaOk(<<>>) ELSE arq.tabelas[tabela]

\* helpers that open a cache connection of their own for each table
ConexoesDoAuxiliar_propria(tabela) == <<Ev("conn", "CacheDB")>>

\* lines 92-104: _salvar_dados_no_cache and _carregar_dados_do_cache use the
\* engine they are given; the connections they open for a table: none
ConexoesDoAuxiliar(tabela) == <<>>

\* lines 102-104: pd.read_sql(tabela, engine_cache) succeeds exactly when the
\* file holds the table in readable form
carregar_dados_do_cache(arq, tabela) == arq.tabelas[tabela]

\* an SQLite connection creates the file when it is not on disk
AposConectar(arq) == IF arq.existe THEN arq ELSE ArquivoVazio

\* a deletion that leaves the file on disk
unlink_mantem(arq) == arq

\* Path.unlink(): removes the file
unlink(arq) == SemArquivo

\* Path.unlink() without missing_ok raises FileNotFoundError on an absent file
unlink_falha(arq) == ~arq.existe

(* ---------------------------- actions --------------------------------- *)

\* a caller invokes obter_dados_brutos() (line 20)
Chamar(p) ==
    /\ chamadas[p] > 0
    /\ estado[p] # "running"
    /\ chamadas' = [chamadas EXCEPT ![p] = @ - 1]
    /\ estado' = [estado EXCEPT ![p] = "running"]
    /\ pilha' = [pilha EXCEPT ![p] = <<NovoFrame>>]
    /\ retorno' = [retorno EXCEPT ![p] = <<>>]
    /\ erro' = [erro EXCEPT ![p] = ""]
    /\ hist' = [hist EXCEPT ![p] = <<>>]
    /\ inicio' = IF traco THEN [inicio EXCEPT ![p] = arquivo] ELSE inicio
    /\ anterior' = IF traco
                    THEN [anterior EXCEPT ![p] =
                            [estado |-> estado[p], retorno |-> retorno[p],
                             hist |-> hist[p], inicio |-> inicio[p]]]
                    ELSE anterior
    /\ UNCHANGED <<arquivo, traco, fabrica>>

\* lines 27-31 and 41-44: the existence check and its log record
VerificarCache(p) ==
    /\ Em(p, "exists")
    /\ IF RamoCacheAusente(arquivo)
       THEN /\ pilha' = ComTopo(p, [Topo(p) EXCEPT !.pc = "fetch_orcado"])
            /\ Registrar(p, <<Ev("exists", "false"), Ev("log", "warning")>>)
       ELSE /\ pilha' = ComTopo(p, [Topo(p) EXCEPT !.pc = "conn_r"])
            /\ Registrar(p, <<Ev("exists", "true"), Ev("log", "info")>>)
    /\ UNCHANGED <<arquivo, chamadas, estado, retorno, erro, inicio, anterior, traco, fabrica>>

\* lines 33 and 66-80: the Orcado fetcher.  "pre" is a failure of
\* carregar_script_sql or get_conexao (lines 71-72, outside the try),
\* "query" a failure of pd.read_sql (line 75, logged by logger.exception,
\* which records at severity error, and re-raised)
buscar_dados_financa_sql_raw(p) ==
    /\ Em(p, "fetch_orcado")
    /\ \E r \in {"ok", "pre", "query"}, resultado \in Linhas :
         CASE r = "ok" ->
                /\ pilha' = ComTopo(p, [Topo(p) EXCEPT
                                !.pc = "fetch_cc",
                                !.df_orcado = <<read_sql(resultado)>>,
                                !.org_orcado = "live"])
                /\ Registrar(p, <<Ev("fetch", "orcado"), Ev("log", "info"),
                                  Ev("conn", "FINANCA_SQL"), Ev("log", "info")>>)
                /\ UNCHANGED <<estado, erro>>
           [] r = "pre" ->
                /\ Falhar(p, "fetch_orcado")
                /\ Registrar(p, <<Ev("fetch", "orcado"), Ev("log", "info"),
                                  Ev("raise", "fetch_orcado")>>)
           [] r = "query" ->
                /\ Falhar(p, "fetch_orcado")
                /\ Registrar(p, <<Ev("fetch", "orcado"), Ev("log", "info"),
                                  Ev("conn", "FINANCA_SQL"), Ev("log", "error"),
                                  Ev("raise", "fetch_orcado")>>)
    /\ UNCHANGED <<arquivo, chamadas, retorno, inicio, anterior, traco, fabrica>>

\* lines 34 and 83-88: the EstruturaCC fetcher; it has no handler, so a
\* failure leaves it with no log record beyond the one of line 85
buscar_dados_hubdados_sql_raw(p) ==
    /\ Em(p, "fetch_cc")
    /\ \E r \in {"ok", "pre", "query"}, resultado \in Linhas :
         CASE r = "ok" ->
                /\ pilha' = ComTopo(p, [Topo(p) EXCEPT
                                !.pc = "conn_w",
                                !.df_cc = <<read_sql(resultado)>>,
                                !.org_cc = "live"])
                /\ Registrar(p, <<Ev("fetch", "cc"), Ev("log", "info"),
                                  Ev("conn", "HubDados")>>)
                /\ UNCHANGED <<estado, erro>>
           [] r = "pre" ->
                /\ Falhar(p, "fetch_cc")
                /\ Registrar(p, <<Ev("fetch", "cc"), Ev("log", "info"),
                                  Ev("raise", "fetch_cc")>>)
           [] r = "query" ->
                /\ Falhar(p, "fetch_cc")
                /\ Registrar(p, <<Ev("fetch", "cc"), Ev("log", "info"),
                                  Ev("conn", "HubDados"),
                                  Ev("raise", "fetch_cc")>>)
    /\ UNCHANGED <<arquivo, chamadas, retorno, inicio, anterior, traco, fabrica>>

\* lines 37-38: the cache connection of the miss path
AbrirCacheEscrita(p) ==
    /\ Em(p, "conn_w")
    /\ \E ok \in BOOLEAN :
         IF ok
         THEN /\ pilha' = ComTopo(p, [Topo(p) EXCEPT !.pc = "write_orcado"])
              /\ Registrar(p, <<Ev("log", "info"), Ev("conn", "CacheDB")>>)
              /\ UNCHANGED <<estado, erro>>
         ELSE /\ Falhar(p, "conn_cache")
              /\ Registrar(p, <<Ev("log", "info"), Ev("raise", "conn_cache")>>)
    /\ UNCHANGED <<arquivo, chamadas, retorno, inicio, anterior, traco, fabrica>>

\* one to_sql of _salvar_dados_no_cache, at position pc, going to prox
Salvar(p, pc, tabela, prox, evsOk) ==
    /\ Em(p, pc)
    /\ \/ /\ arquivo' = Gravar(arquivo, tabela,
                  to_sql(salvar_arg(tabela, Topo(p).df_orcado[1], Topo(p).df_cc[1])))
          /\ pilha' = ComTopo(p, [Topo(p) EXCEPT !.pc = prox])
          /\ Registrar(p, ConexoesDoAuxiliar(tabela) \o <<Ev("write", tabela)>> \o evsOk)
          /\ UNCHANGED <<estado, erro>>
       \/ /\ arquivo' \in RestosDeGravacao(arquivo, tabela)
          /\ Falhar(p, "write")
          /\ Registrar(p, <<Ev("raise", "write")>>)
    /\ UNCHANGED <<chamadas, retorno, inicio, anterior, traco, fabrica>>

\* lines 94-96: the first table write
SalvarOrcado(p) == Salvar(p, "write_orcado", TABELA_ORCADO_CACHE, "write_cc", <<>>)

\* lines 97-98: the second table write and the log record of the success
SalvarCC(p) == Salvar(p, "write_cc", TABELA_CC_CACHE, "return", <<Ev("log", "info")>>)

\* line 47: the cache connection of the hit path, inside the try
AbrirCacheLeitura(p) ==
    /\ Em(p, "conn_r")
    /\ \E ok \in BOOLEAN :
         IF ok
         THEN /\ pilha' = ComTopo(p, [Topo(p) EXCEPT !.pc = "read_orcado"])
              /\ Registrar(p, <<Ev("conn", "CacheDB")>>)
              /\ UNCHANGED <<estado, erro>>
         ELSE /\ Falhar(p, "conn_cache")
              /\ Registrar(p, <<Ev("raise", "conn_cache")>>)
    /\ UNCHANGED <<arquivo, chamadas, retorno, inicio, anterior, traco, fabrica>>

\* line 50: read of orcado_nacional_raw
CarregarOrcado(p) ==
    /\ Em(p, "read_orcado")
    /\ arquivo' = AposConectar(arquivo)
    /\ LET t == carregar_dados_do_cache(AposConectar(arquivo), TABELA_ORCADO_CACHE)
       IN IF t.st = "ok"
          THEN /\ pilha' = ComTopo(p, [Topo(p) EXCEPT
                                !.pc = "read_cc",
                                !.df_orcado = <<read_sql(t.rows)>>,
                                !.org_orcado = "cache"])
               /\ Registrar(p, ConexoesDoAuxiliar(TABELA_ORCADO_CACHE)
                                  \o <<Ev("read", TABELA_ORCADO_CACHE)>>)
               /\ UNCHANGED <<estado, erro>>
          ELSE /\ Falhar(p, "read")
               /\ Registrar(p, <<Ev("raise", "read")>>)
    /\ UNCHANGED <<chamadas, retorno, inicio, anterior, traco, fabrica>>

\* lines 51-53: read of cc_estrutura_raw and the log record of the success
CarregarCC(p) ==
    /\ Em(p, "read_cc")
    /\ arquivo' = AposConectar(arquivo)
    /\ LET t == carregar_dados_do_cache(AposConectar(arquivo), TABELA_CC_CACHE)
       IN IF t.st = "ok"
          THEN /\ pilha' = ComTopo(p, [Topo(p) EXCEPT
                                !.pc = "return",
                                !.df_cc = <<read_sql(t.rows)>>,
                                !.org_cc = "cache"])
               /\ Registrar(p, ConexoesDoAuxiliar(TABELA_CC_CACHE)
                                  \o <<Ev("read", TABELA_CC_CACHE), Ev("log", "info")>>)
               /\ UNCHANGED <<estado, erro>>
          ELSE /\ Falhar(p, "read")
               /\ Registrar(p, <<Ev("raise", "read")>>)
    /\ UNCHANGED <<chamadas, retorno, inicio, anterior, traco, fabrica>>

\* lines 54-59: the handler logs the failure and deletes the cache file
TratarErroCache(p) ==
    /\ Em(p, "except")
    /\ IF unlink_falha(arquivo)
       THEN /\ pilha' = [pilha EXCEPT ![p] = <<>>]
            /\ estado' = [estado EXCEPT ![p] = "raised"]
            /\ erro' = [erro EXCEPT ![p] = "unlink"]
            /\ Registrar(p, <<Ev("log", "error"), Ev("log", "warning"),
                              Ev("raise", "unlink")>>)
            /\ UNCHANGED arquivo
       ELSE /\ arquivo' = unlink(arquivo)
            /\ pilha' = ComTopo(p, [Topo(p) EXCEPT !.pc = "recurse"])
            /\ Registrar(p, <<Ev("log", "error"), Ev("log", "warning"),
                              Ev("unlink", "ok")>>)
            /\ UNCHANGED <<estado, erro>>
    /\ UNCHANGED <<chamadas, retorno, inicio, anterior, traco, fabrica>>

\* line 61: the function calls itself
Reinvocar(p) ==
    /\ Em(p, "recurse")
    /\ Len(pilha[p]) < MaxDepth
    /\ pilha' = [pilha EXCEPT ![p] =
                   Append([@ EXCEPT ![Len(@)] = [Topo(p) EXCEPT !.pc = "wait"]],
                          NovoFrame)]
    /\ Registrar(p, <<Ev("call", "obter_dados_brutos")>>)
    /\ UNCHANGED <<arquivo, chamadas, estado, retorno, erro, inicio, anterior, traco, fabrica>>

\* lines 61 and 63: the top frame returns, to the frame below it or to the
\* caller of the top-level call
Retornar(p) ==
    /\ \/ Em(p, "return")
       \/ Em(p, "return61")
    /\ LET v == ValorRetorno(Topo(p))
           n == Len(pilha[p])
       IN IF n = 1
          THEN /\ pilha' = [pilha EXCEPT ![p] = <<>>]
               /\ estado' = [estado EXCEPT ![p] = "returned"]
               /\ retorno' = [retorno EXCEPT ![p] = <<v>>]
          ELSE /\ pilha' = [pilha EXCEPT ![p] =
                              [SubSeq(@, 1, n - 1) EXCEPT ![n - 1] =
                                  [@ EXCEPT !.pc = "return61", !.valor = <<v>>]]]
               /\ UNCHANGED <<estado, retorno>>
    /\ Registrar(p, <<Ev("return", "")>>)
    /\ UNCHANGED <<arquivo, chamadas, erro, inicio, anterior, traco, fabrica>>

(* ---------------------------- connection factory ---------------------- *)

\* the absent value of an optional field of a descriptor (None)
NoneVal == "None"

\* DbConfig.tipo is any string: the three the factory knows, one that
\* differs from a known one by case only, another word, the empty string
Tipos == {"sql", "olap", "sqlite", "SQL", "outro", ""}

TiposConhecidos == {"sql", "olap", "sqlite"}

\* DbConfig.banco: absent, empty or a database name
Bancos == {NoneVal, "", "FINANCA"}

\* DbConfig.caminho: absent or a path
Caminhos == {NoneVal, "cache_dados.db"}

\* the descriptors a caller may hand to the factory
DbConfig == [tipo : Tipos, banco : Bancos, caminho : Caminhos]

\* Python truth value of an optional string
Verdadeiro(v) == v # NoneVal /\ v # ""

\* config.banco or config.caminho
destino_log(config) ==
    IF Verdadeiro(config.banco) THEN config.banco ELSE config.caminho

\* no handle (nothing returned, nothing bound to conn)
SemConexao == [classe |-> "None", url |-> "", aberta |-> FALSE]

\* create_engine(conn_str): an Engine, which connects on first use
create_engine(url) == [classe |-> "Engine", url |-> url, aberta |-> FALSE]

\* Pyadomd(conn_str): a session object, not yet opened
Pyadomd == [classe |-> "Pyadomd", url |-> "olap", aberta |-> FALSE]

\* conn.open()
open(conn) == [conn EXCEPT !.aberta = TRUE]

\* the unknown type is taken for a file database
Ramo_sem_else(tipo) ==
    IF tipo = "sql" THEN "sql"
    ELSE IF tipo = "olap" THEN "olap"
    ELSE "sqlite"

\* the if / elif / elif / else chain on config.tipo
Ramo(tipo) ==
    IF tipo = "sql" THEN "sql"
    ELSE IF tipo = "olap" THEN "olap"
    ELSE IF tipo = "sqlite" THEN "sqlite"
    ELSE "else"

\* the factory before any call
FabricaParada ==
    [pc |-> "idle", config |-> [tipo |-> "", banco |-> NoneVal, caminho |-> NoneVal],
     destino |-> NoneVal, log |-> <<>>, conn |-> SemConexao, criadas |-> <<>>,
     e |-> "", retorno |-> SemConexao, erro |-> ""]

FabricaTerminou == fabrica.pc \in {"returned", "raised"}

\* a caller invokes get_conexao(config)
ChamarFabrica ==
    /\ fabrica.pc \in {"idle", "returned", "raised"}
    /\ \E config \in DbConfig :
          fabrica' = [FabricaParada EXCEPT !.pc = "l22", !.config = config]
    /\ UNCHANGED varsExtracao

\* destino_log = ...; logger.info("Criando conexão do tipo ...")
RegistrarPedido ==
    /\ fabrica.pc = "l22"
    /\ fabrica' = [fabrica EXCEPT !.pc = "l25",
                                  !.destino = destino_log(fabrica.config),
                                  !.log = Append(@, Ev("log", "info"))]
    /\ UNCHANGED varsExtracao

\* if config.tipo == "sql": return create_engine(conn_str, fast_executemany=True)
CriarEngineSql ==
    /\ fabrica.pc = "l25"
    /\ Ramo(fabrica.config.tipo) = "sql"
    /\ LET eng == create_engine("mssql+pyodbc")
       IN fabrica' = [fabrica EXCEPT !.pc = "returned",
                                     !.criadas = Append(@, eng),
                                     !.retorno = eng]
    /\ UNCHANGED varsExtracao

\* elif config.tipo == "olap": try: conn = Pyadomd(conn_str)
ConstruirOlap ==
    /\ fabrica.pc = "l25"
    /\ Ramo(fabrica.config.tipo) = "olap"
    /\ \E resultado \in {"ok", "falha"} :
          IF resultado = "ok"
          THEN fabrica' = [fabrica EXCEPT !.pc = "l46",
                                          !.conn = Pyadomd,
                                          !.criadas = Append(@, Pyadomd)]
          ELSE fabrica' = [fabrica EXCEPT !.pc = "l49", !.e = "Exception"]
    /\ UNCHANGED varsExtracao

\* conn.open(); logger.info("Conexão OLAP aberta com sucesso."); return conn
AbrirOlap ==
    /\ fabrica.pc = "l46"
    /\ \E resultado \in {"ok", "falha"} :
          IF resultado = "ok"
          THEN fabrica' = [fabrica EXCEPT !.pc = "returned",
                                          !.conn = open(@),
                                          !.log = Append(@, Ev("log", "info")),
                                          !.retorno = open(fabrica.conn)]
          ELSE fabrica' = [fabrica EXCEPT !.pc = "l49", !.e = "Exception"]
    /\ UNCHANGED varsExtracao

\* except Exception as e: logger.exception("Falha ao abrir conexão OLAP."); raise e
TratarFalhaOlap ==
    /\ fabrica.pc = "l49"
    /\ fabrica' = [fabrica EXCEPT !.pc = "raised",
                                  !.log = Append(@, Ev("log", "error")),
                                  !.erro = fabrica.e]
    /\ UNCHANGED varsExtracao

\* elif config.tipo == "sqlite": return create_engine(conn_str)
CriarEngineSqlite ==
    /\ fabrica.pc = "l25"
    /\ Ramo(fabrica.config.tipo) = "sqlite"
    /\ LET eng == create_engine("sqlite")
       IN fabrica' = [fabrica EXCEPT !.pc = "returned",
                                     !.criadas = Append(@, eng),
                                     !.retorno = eng]
    /\ UNCHANGED varsExtracao

\* else: raise ValueError("Tipo de conexão desconhecido: ...")
TipoDesconhecido ==
    /\ fabrica.pc = "l25"
    /\ Ramo(fabrica.config.tipo) = "else"
    /\ fabrica' = [fabrica EXCEPT !.pc = "raised", !.erro = "ValueError"]
    /\ UNCHANGED varsExtracao

(* ---------------------------- specifications -------------------------- *)

InitComum ==
    /\ estado = [p \in Chamadores |-> "idle"]
    /\ pilha = [p \in Chamadores |-> <<>>]
    /\ retorno = [p \in Chamadores |-> <<>>]
    /\ erro = [p \in Chamadores |-> ""]
    /\ hist = [p \in Chamadores |-> <<>>]
    /\ inicio = [p \in Chamadores |-> SemArquivo]
    /\ anterior = [p \in Chamadores |->
                     [estado |-> "idle", retorno |-> <<>>, hist |-> <<>>,
                      inicio |-> SemArquivo]]
    /\ fabrica = FabricaParada

\* one caller: its invocations run one after the other
Init ==
    /\ InitComum
    /\ arquivo \in Arquivos
    /\ chamadas = [p \in Chamadores |-> IF p = "A" THEN MaxCalls ELSE 0]
    /\ traco = TRUE

\* two callers, one invocation each, interleaved on the same cache file
InitConc ==
    /\ InitComum
    /\ arquivo \in ArquivosConc
    /\ chamadas = [p \in Chamadores |-> 1]
    /\ traco = FALSE

Passo(p) ==
    \/ Chamar(p)
    \/ VerificarCache(p)
    \/ buscar_dados_financa_sql_raw(p)
    \/ buscar_dados_hubdados_sql_raw(p)
    \/ AbrirCacheEscrita(p)
    \/ SalvarOrcado(p)
    \/ SalvarCC(p)
    \/ AbrirCacheLeitura(p)
    \/ CarregarOrcado(p)
    \/ CarregarCC(p)
    \/ TratarErroCache(p)
    \/ Reinvocar(p)
    \/ Retornar(p)

Next == \E p \in Chamadores : Passo(p)

Spec == Init /\ [][Next]_vars

SpecConc == InitConc /\ [][Next]_vars

\* the factory on its own: any descriptor, call after call; the extraction
\* layer stays idle
InitConexao ==
    /\ InitComum
    /\ arquivo = SemArquivo
    /\ chamadas = [p \in Chamadores |-> 0]
    /\ traco = FALSE

NextConexao ==
    \/ ChamarFabrica
    \/ RegistrarPedido
    \/ CriarEngineSql
    \/ ConstruirOlap
    \/ AbrirOlap
    \/ TratarFalhaOlap
    \/ CriarEngineSqlite
    \/ TipoDesconhecido

SpecConexao == InitConexao /\ [][NextConexao]_vars

(* ---------------------------- observations ---------------------------- *)

Retornou(p) == estado[p] = "returned"

Levantou(p) == estado[p] = "raised"

Terminou(p) == Retornou(p) \/ Levantou(p)

\* invocations of a Raw Fetcher in the current top-level call of p
Buscas(p, qual) == ContaEv(hist[p], Ev("fetch", qual))

\* exceptions of a kind raised in the current top-level call of p
Falhas(p, tipo) == ContaEv(hist[p], Ev("raise", tipo))

FalhasDeBusca(p) == Falhas(p, "fetch_orcado") + Falhas(p, "fetch_cc")

\* deletions of the cache file and re-invocations in the current call of p
Purgas(p) == Conta(hist[p], "unlink")

Reinvocacoes(p) == Conta(hist[p], "call")

\* the cache file holds exactly the two datasets of the pair par
CacheContem(arq, par) ==
    /\ arq.existe
    /\ arq.tabelas[TABELA_ORCADO_CACHE] = TabelaOk(par.orcado.rows)
    /\ arq.tabelas[TABELA_CC_CACHE] = TabelaOk(par.cc.rows)

\* the pair of frames a reader gets from the two tables of a valid file
ParDoCache(arq) ==
    [orcado |-> read_sql(arq.tabelas[TABELA_ORCADO_CACHE].rows),
     cc |-> read_sql(arq.tabelas[TABELA_CC_CACHE].rows)]

Dados(par) == [orcado |-> par.orcado, cc |-> par.cc]

\* the first position after k at which the history h holds the event ev,
\* 0 when there is none
PosApos(h, ev, k) ==
    IF \E i \in (k + 1)..Len(h) : h[i] = ev
    THEN CHOOSE i \in (k + 1)..Len(h) :
            /\ h[i] = ev
            /\ \A j \in (k + 1)..(i - 1) : h[j] # ev
    ELSE 0

Pos(h, ev) == PosApos(h, ev, 0)

\* the event at position i of h was recorded in a pass that found the file
NoCaminhoDeAcerto(h, i) ==
    \E k \in 1..(i - 1) :
        /\ h[k] = Ev("exists", "true")
        /\ \A m \in (k + 1)..(i - 1) : h[m].ev # "exists"

(* ---------------------------- claims ---------------------------------- *)

\* C1 (cold start): a call that found no cache file and met no failure
\* returns, has invoked each Raw Fetcher exactly once, returns the two
\* live-fetched datasets, and leaves a cache file whose two tables hold
\* exactly the content of those datasets.
C1_ColdStart ==
    \A p \in Chamadores :
        (traco /\ Terminou(p) /\ ~inicio[p].existe /\ Conta(hist[p], "raise") = 0)
        => /\ Retornou(p)
           /\ Buscas(p, "orcado") = 1
           /\ Buscas(p, "cc") = 1
           /\ retorno[p][1].origem = <<"live", "live">>
           /\ CacheContem(arquivo, retorno[p][1])

C1_Witness ==
    \E p \in Chamadores :
        /\ traco /\ Retornou(p) /\ ~inicio[p].existe
        /\ retorno[p][1].orcado.rows # retorno[p][1].cc.rows

\* C2 (warm read): a call that found a cache file holding both tables in
\* readable form, and whose cache connection opened, returns exactly the
\* content of the two tables as it found them and invokes no Raw Fetcher.
C2_WarmRead ==
    \A p \in Chamadores :
        (traco /\ Terminou(p) /\ CacheValido(inicio[p]) /\ Falhas(p, "conn_cache") = 0)
        => /\ Retornou(p)
           /\ Dados(retorno[p][1]) = ParDoCache(inicio[p])
           /\ Conta(hist[p], "fetch") = 0

C2_Witness ==
    \E p \in Chamadores :
        /\ traco /\ Retornou(p) /\ CacheValido(inicio[p])
        /\ Falhas(p, "conn_cache") = 0
        /\ inicio[p].tabelas[TABELA_ORCADO_CACHE] # inicio[p].tabelas[TABELA_CC_CACHE]

\* C3 (corruption recovery): a call that found a cache file whose table
\* orcado_nacional_raw cannot be read, and met no failure other than that
\* read error, deletes the file once, invokes each Raw Fetcher exactly once,
\* returns the live-fetched datasets and leaves a cache file holding them.
C3_CorruptionRecovery ==
    \A p \in Chamadores :
        (/\ traco /\ Terminou(p)
         /\ inicio[p].existe
         /\ inicio[p].tabelas[TABELA_ORCADO_CACHE].st # "ok"
         /\ Falhas(p, "read") = Conta(hist[p], "raise"))
        => /\ Retornou(p)
           /\ Falhas(p, "read") = 1
           /\ Purgas(p) = 1
           /\ Buscas(p, "orcado") = 1
           /\ Buscas(p, "cc") = 1
           /\ retorno[p][1].origem = <<"live", "live">>
           /\ CacheContem(arquivo, retorno[p][1])

C3_Witness ==
    \E p \in Chamadores :
        /\ traco /\ Retornou(p)
        /\ inicio[p].existe
        /\ inicio[p].tabelas[TABELA_ORCADO_CACHE].st = "invalid"
        /\ Falhas(p, "read") = 1
        /\ Purgas(p) = 1

\* C4 (double failure propagates): once a Raw Fetcher has failed after the
\* purge of a call, the call has ended by raising that failure to its
\* caller, with one purge and one re-invocation and no more.
C4_DoubleFailurePropagates ==
    \A p \in Chamadores :
        (traco /\ Purgas(p) >= 1 /\ FalhasDeBusca(p) >= 1)
        => /\ Levantou(p)
           /\ erro[p] \in {"fetch_orcado", "fetch_cc"}
           /\ pilha[p] = <<>>
           /\ retorno[p] = <<>>
           /\ Purgas(p) = 1
           /\ Reinvocacoes(p) = 1
           /\ FalhasDeBusca(p) = 1

C4_Witness ==
    \E p \in Chamadores :
        /\ traco /\ Levantou(p)
        /\ Purgas(p) = 1
        /\ Falhas(p, "fetch_cc") = 1

\* C5 (retry ceiling): a top-level call deletes the cache file at most once
\* and re-invokes itself at most once, whatever the cache held and whatever
\* failed; it checks the file's existence at most twice, and while it runs
\* it always has a next step, so it ends by returning or raising.
C5_RetryCeiling ==
    \A p \in Chamadores :
        traco =>
          /\ Purgas(p) <= 1
          /\ Reinvocacoes(p) <= 1
          /\ Conta(hist[p], "exists") <= 2
          /\ Len(pilha[p]) <= 2
          /\ (estado[p] = "running" => ENABLED Passo(p))

C5_Witness ==
    \E p \in Chamadores :
        /\ traco /\ Terminou(p)
        /\ Purgas(p) = 1
        /\ Reinvocacoes(p) = 1

\* C6 (no mixing): the two datasets a call returns are both read from the
\* cache or both fetched live; when orcado_nacional_raw was read from the
\* cache and the read of cc_estrutura_raw failed, both are the live ones.
C6_NoMixing ==
    \A p \in Chamadores :
        (traco /\ Retornou(p))
        => /\ retorno[p][1].origem \in {<<"live", "live">>, <<"cache", "cache">>}
           /\ (Falhas(p, "read") >= 1 => retorno[p][1].origem = <<"live", "live">>)

C6_Witness ==
    \E p \in Chamadores :
        /\ traco /\ Retornou(p)
        /\ ContaEv(hist[p], Ev("read", TABELA_ORCADO_CACHE)) = 1
        /\ Falhas(p, "read") = 1

\* C7 (fetch failure is fatal): once a Raw Fetcher has failed, the call has
\* ended by raising, has returned nothing, and has invoked each Raw Fetcher
\* at most once.
C7_FetchFailureFatal ==
    \A p \in Chamadores :
        (traco /\ FalhasDeBusca(p) >= 1)
        => /\ Levantou(p)
           /\ erro[p] \in {"fetch_orcado", "fetch_cc"}
           /\ retorno[p] = <<>>
           /\ Buscas(p, "orcado") = 1
           /\ Buscas(p, "cc") <= 1
           /\ FalhasDeBusca(p) = 1

C7_Witness ==
    \E p \in Chamadores :
        /\ traco /\ Levantou(p)
        /\ Purgas(p) = 0
        /\ Falhas(p, "fetch_cc") = 1
        /\ Buscas(p, "orcado") = 1

\* C8 (partial cache is invalid): a call that found a cache file lacking
\* one table or both has, when it ends, deleted the file once and run the
\* live fetch (the Orcado fetcher once and, unless that one failed, the
\* EstruturaCC fetcher once); what it returns is live-fetched, never read
\* from that file.
C8_PartialCacheInvalid ==
    \A p \in Chamadores :
        (/\ traco /\ Terminou(p)
         /\ inicio[p].existe
         /\ \E t \in Tabelas : inicio[p].tabelas[t].st = "missing")
        => /\ Purgas(p) = 1
           /\ Buscas(p, "orcado") = 1
           /\ (Falhas(p, "fetch_orcado") = 0 => Buscas(p, "cc") = 1)
           /\ (Retornou(p) => retorno[p][1].origem = <<"live", "live">>)

C8_Witness ==
    \E p \in Chamadores :
        /\ traco /\ Retornou(p)
        /\ chamadas[p] < MaxCalls - 1
        /\ inicio[p].existe
        /\ inicio[p].tabelas[TABELA_ORCADO_CACHE].st = "ok"
        /\ inicio[p].tabelas[TABELA_CC_CACHE].st = "missing"
        /\ retorno[p][1].orcado.rows # inicio[p].tabelas[TABELA_ORCADO_CACHE].rows

\* C9 (purge does not fail on an absent file): the deletion of line 59
\* never raises, whether or not the file is on disk when it runs, so no
\* call ends with the exception of a failed deletion.
C9_PurgeNeverRaises ==
    \A p \in Chamadores : Levantou(p) => erro[p] # "unlink"

\* C10 (cache write failure propagates): once a table write has failed, the
\* call has ended by raising that failure, has returned nothing, and has
\* retried neither the write nor a fetch.
C10_WriteFailurePropagates ==
    \A p \in Chamadores :
        (traco /\ Falhas(p, "write") >= 1)
        => /\ Levantou(p)
           /\ erro[p] = "write"
           /\ retorno[p] = <<>>
           /\ Falhas(p, "write") = 1
           /\ Conta(hist[p], "write") <= 1
           /\ Buscas(p, "orcado") = 1
           /\ Buscas(p, "cc") = 1

C10_Witness ==
    \E p \in Chamadores :
        /\ traco /\ Levantou(p)
        /\ Falhas(p, "write") = 1
        /\ Conta(hist[p], "write") = 1
        /\ arquivo.existe

\* C11 (idempotent re-read): two successive calls of a caller, the first of
\* which found a valid cache and in neither of which the cache connection
\* failed, return the same pair of datasets, and the cache file after the
\* second is the file the first found.
C11_IdempotentReRead ==
    \A p \in Chamadores :
        (/\ traco /\ Terminou(p)
         /\ anterior[p].estado # "idle"
         /\ CacheValido(anterior[p].inicio)
         /\ ContaEv(anterior[p].hist, Ev("raise", "conn_cache")) = 0
         /\ Falhas(p, "conn_cache") = 0)
        => /\ anterior[p].estado = "returned"
           /\ Retornou(p)
           /\ Dados(retorno[p][1]) = Dados(anterior[p].retorno[1])
           /\ inicio[p] = anterior[p].inicio
           /\ arquivo = anterior[p].inicio

C11_Witness ==
    \E p \in Chamadores :
        /\ traco /\ Retornou(p)
        /\ anterior[p].estado = "returned"
        /\ CacheValido(anterior[p].inicio)
        /\ Conta(anterior[p].hist, "raise") = 0
        /\ Conta(hist[p], "raise") = 0
        /\ retorno[p][1].orcado.rows # retorno[p][1].cc.rows

\* C12 (overwrite semantics): every table write that succeeds leaves under
\* the table's name exactly the rows of the frame written, whatever the
\* table held, leaves the other table as it was, and a read of the table
\* then yields the frame written.
C12_OverwriteSemantics ==
    [][\A p \in Chamadores :
         /\ (Em(p, "write_orcado") /\ estado'[p] = "running" /\ pilha'[p] # pilha[p])
            => /\ arquivo'.tabelas[TABELA_ORCADO_CACHE]
                     = TabelaOk(Topo(p).df_orcado[1].rows)
               /\ arquivo'.tabelas[TABELA_CC_CACHE] = arquivo.tabelas[TABELA_CC_CACHE]
               /\ read_sql(carregar_dados_do_cache(arquivo', TABELA_ORCADO_CACHE).rows)
                     = Topo(p).df_orcado[1]
         /\ (Em(p, "write_cc") /\ estado'[p] = "running" /\ pilha'[p] # pilha[p])
            => /\ arquivo'.tabelas[TABELA_CC_CACHE]
                     = TabelaOk(Topo(p).df_cc[1].rows)
               /\ arquivo'.tabelas[TABELA_ORCADO_CACHE]
                     = arquivo.tabelas[TABELA_ORCADO_CACHE]
               /\ read_sql(carregar_dados_do_cache(arquivo', TABELA_CC_CACHE).rows)
                     = Topo(p).df_cc[1]]_vars

\* both callers are on the miss path of their first pass, past their write
\* of orcado_nacional_raw, with different Orcado frames: the table has been
\* written twice with different rows and no deletion in between
C12_Witness ==
    /\ \A p \in Chamadores :
          /\ Len(pilha[p]) = 1
          /\ Em(p, "write_cc")
    /\ pilha["A"][1].df_orcado # pilha["B"][1].df_orcado
    /\ arquivo.tabelas[TABELA_ORCADO_CACHE].st = "ok"

\* C13 (single cache connection per pass): a call opens at most one cache
\* connection per pass, and none inside the helpers that read or write a
\* table; a call that returns on the hit path has opened exactly one cache
\* connection, read both tables and opened no upstream connection; a call
\* that returns on the miss path has opened exactly one cache connection in
\* that pass and written both tables.
C13_SingleCacheConnection ==
    \A p \in Chamadores :
        traco =>
          /\ ContaEv(hist[p], Ev("conn", "CacheDB")) <= Conta(hist[p], "exists")
          /\ (Retornou(p) /\ retorno[p][1].origem = <<"cache", "cache">>)
             => /\ ContaEv(hist[p], Ev("conn", "CacheDB")) = 1
                /\ Conta(hist[p], "conn") = 1
                /\ Conta(hist[p], "read") = 2
          /\ (Retornou(p) /\ retorno[p][1].origem = <<"live", "live">>)
             => /\ ContaEv(hist[p], Ev("conn", "CacheDB"))
                     = 1 + Purgas(p) - Falhas(p, "conn_cache")
                /\ Conta(hist[p], "write") = 2

C13_Witness ==
    \E p \in Chamadores :
        /\ traco /\ Retornou(p)
        /\ retorno[p][1].origem = <<"cache", "cache">>
        /\ ContaEv(hist[p], Ev("conn", "CacheDB")) = 1
        /\ Conta(hist[p], "read") = 2

\* C14 (fetcher failures are logged before they propagate): every failure
\* that leaves a Raw Fetcher is immediately preceded, in the history of the
\* call, by a log record of critical severity.
C14_FetchFailureLoggedCritical ==
    \A p \in Chamadores :
        \A i \in 1..Len(hist[p]) :
            (hist[p][i] \in {Ev("raise", "fetch_orcado"), Ev("raise", "fetch_cc")})
            => /\ i > 1
               /\ hist[p][i - 1] = Ev("log", "critical")

\* C15 (recovery ordering): a failure raised in a pass that found the cache
\* file (opening the cache connection or reading a table) is followed, in
\* this order, by the error and warning log records, the deletion of the
\* file, the re-invocation and an existence check that finds no file; every
\* Raw Fetcher invocation of the call comes after the deletion.
C15_RecoveryOrdering ==
    \A p \in Chamadores :
        traco =>
          \A i \in 1..Len(hist[p]) :
            (/\ hist[p][i] \in {Ev("raise", "read"), Ev("raise", "conn_cache")}
             /\ NoCaminhoDeAcerto(hist[p], i))
            => \/ i = Len(hist[p]) /\ Em(p, "except")
               \/ /\ i + 3 <= Len(hist[p])
                  /\ hist[p][i + 1] = Ev("log", "error")
                  /\ hist[p][i + 2] = Ev("log", "warning")
                  /\ hist[p][i + 3] = Ev("unlink", "ok")
                  /\ (i + 4 <= Len(hist[p])
                         => hist[p][i + 4] = Ev("call", "obter_dados_brutos"))
                  /\ (i + 5 <= Len(hist[p])
                         => hist[p][i + 5] = Ev("exists", "false"))
                  /\ (i + 3 = Len(hist[p]) => ~arquivo.existe)
                  /\ \A j \in 1..Len(hist[p]) :
                         hist[p][j].ev = "fetch" => j > i + 3

C15_Witness ==
    \E p \in Chamadores :
        /\ traco /\ Terminou(p)
        /\ Falhas(p, "conn_cache") = 1
        /\ Purgas(p) = 1
        /\ Buscas(p, "orcado") = 1
        /\ Pos(hist[p], Ev("unlink", "ok")) < Pos(hist[p], Ev("fetch", "orcado"))

\* C16 (warm read leaves the cache untouched): a call that returns what it
\* read from the cache has written no table and deleted nothing, and the
\* cache file is as the call found it; a call writes a table only in a pass
\* that found no file (the file was absent at the start or the call has
\* deleted it).
C16_WarmReadNoWrite ==
    \A p \in Chamadores :
        traco =>
          /\ (Retornou(p) /\ retorno[p][1].origem = <<"cache", "cache">>)
             => /\ Conta(hist[p], "write") = 0
                /\ Purgas(p) = 0
                /\ arquivo = inicio[p]
          /\ Conta(hist[p], "write") >= 1
             => /\ ~inicio[p].existe \/ Purgas(p) = 1
                /\ Pos(hist[p], Ev("exists", "false")) > 0
                /\ Pos(hist[p], Ev("exists", "false"))
                      < Pos(hist[p], Ev("write", TABELA_ORCADO_CACHE))

C16_Witness ==
    \E p \in Chamadores :
        /\ traco /\ Retornou(p)
        /\ retorno[p][1].origem = <<"cache", "cache">>
        /\ arquivo = inicio[p]
        /\ arquivo.tabelas[TABELA_ORCADO_CACHE] # arquivo.tabelas[TABELA_CC_CACHE]

\* C17 (miss-path ordering): in the pass that found no file the Orcado fetch
\* precedes the EstruturaCC fetch, which precedes the opening of the cache
\* connection, which precedes the write of orcado_nacional_raw, which
\* precedes the write of cc_estrutura_raw; each happens only if the ones
\* before it succeeded.  After a failed Orcado fetch the EstruturaCC fetcher
\* is not invoked, and after a failed fetch no table is written and the
\* cache file is not on disk.
C17_MissPathOrdering ==
    \A p \in Chamadores :
        traco =>
          LET h  == hist[p]
              ex == Pos(h, Ev("exists", "false"))
              fo == Pos(h, Ev("fetch", "orcado"))
              fc == Pos(h, Ev("fetch", "cc"))
              cw == IF ex > 0 THEN PosApos(h, Ev("conn", "CacheDB"), ex) ELSE 0
              wo == Pos(h, Ev("write", TABELA_ORCADO_CACHE))
              wc == Pos(h, Ev("write", TABELA_CC_CACHE))
          IN /\ fo > 0 => (0 < ex /\ ex < fo)
             /\ fc > 0 => (0 < fo /\ fo < fc /\ Falhas(p, "fetch_orcado") = 0)
             /\ cw > 0 => (0 < fc /\ fc < cw /\ FalhasDeBusca(p) = 0)
             /\ wo > 0 => (0 < cw /\ cw < wo)
             /\ wc > 0 => (0 < wo /\ wo < wc)
             /\ Falhas(p, "fetch_orcado") >= 1 => fc = 0
             /\ FalhasDeBusca(p) >= 1 => (wo = 0 /\ wc = 0 /\ ~arquivo.existe)

C17_Witness ==
    \E p \in Chamadores :
        /\ traco /\ Retornou(p)
        /\ Pos(hist[p], Ev("fetch", "orcado")) < Pos(hist[p], Ev("fetch", "cc"))
        /\ Pos(hist[p], Ev("fetch", "cc"))
              < Pos(hist[p], Ev("write", TABELA_ORCADO_CACHE))
        /\ Pos(hist[p], Ev("write", TABELA_ORCADO_CACHE))
              < Pos(hist[p], Ev("write", TABELA_CC_CACHE))
        /\ Pos(hist[p], Ev("fetch", "orcado")) > 0

\* C18 (a failed recovery leaves the cache purged): from the deletion of
\* the cache file until the call's own first table write the file is not on
\* disk, so a call that ends by a Raw Fetcher failure after the purge ends
\* with the file absent; the caller's next call finds no file and takes the
\* miss path.
C18_FailedRecoveryLeavesPurged ==
    \A p \in Chamadores :
        traco =>
          /\ (Purgas(p) >= 1 /\ Conta(hist[p], "write") = 0 /\ Falhas(p, "write") = 0)
             => ~arquivo.existe
          /\ (Levantou(p) /\ Purgas(p) = 1 /\ FalhasDeBusca(p) = 1)
             => ~arquivo.existe
          /\ (/\ anterior[p].estado = "raised"
              /\ Conta(anterior[p].hist, "unlink") = 1
              /\ ContaEv(anterior[p].hist, Ev("raise", "fetch_orcado"))
                   + ContaEv(anterior[p].hist, Ev("raise", "fetch_cc")) = 1
              /\ hist[p] # <<>>)
             => /\ ~inicio[p].existe
                /\ hist[p][1] = Ev("exists", "false")

C18_Witness ==
    \E p \in Chamadores :
        /\ traco
        /\ anterior[p].estado = "raised"
        /\ Conta(anterior[p].hist, "unlink") = 1
        /\ ContaEv(anterior[p].hist, Ev("raise", "fetch_cc")) = 1
        /\ hist[p] # <<>>
        /\ hist[p][1] = Ev("exists", "false")

\* C19 (post-success invariant): when a call run on its own has returned,
\* by the hit path, the miss path or the recovery path, the cache file is on
\* disk and its two tables hold exactly the rows of the two returned
\* datasets.
C19_PostSuccess ==
    \A p \in Chamadores :
        (traco /\ Retornou(p)) => CacheContem(arquivo, retorno[p][1])

C19_Witness ==
    \E p \in Chamadores :
        /\ traco /\ Retornou(p)
        /\ Purgas(p) = 1
        /\ CacheContem(arquivo, retorno[p][1])
        /\ Len(retorno[p][1].orcado.rows) > 0

C21_FactoryDispatch ==
    LET tipo == fabrica.config.tipo
    IN  FabricaTerminou =>
          /\ tipo \in {"sql", "sqlite"} =>
                /\ fabrica.pc = "returned"
                /\ fabrica.retorno.classe = "Engine"
                /\ fabrica.erro = ""
          /\ tipo = "olap" =>
                IF fabrica.e = ""
                THEN /\ fabrica.pc = "returned"
                     /\ fabrica.retorno.classe = "Pyadomd"
                     /\ fabrica.retorno.aberta
                     /\ fabrica.erro = ""
                ELSE /\ fabrica.pc = "raised"
                     /\ fabrica.erro = fabrica.e
                     /\ fabrica.retorno = SemConexao
          /\ tipo \notin TiposConhecidos =>
                /\ fabrica.pc = "raised"
                /\ fabrica.erro = "ValueError"
                /\ fabrica.criadas = <<>>
                /\ fabrica.retorno = SemConexao

\* a call with a type that differs from a known one by case only has ended
\* in ValueError
C21_Witness ==
    /\ fabrica.pc = "raised"
    /\ fabrica.config.tipo = "SQL"
    /\ fabrica.erro = "ValueError"
    /\ fabrica.log = <<Ev("log", "info")>>

====
